---- MODULE Spec2Model ----
(***************************************************************************)
(* The download engine of HomeBack (src/src/download.rs): a pool of        *)
(* MAX_PARALLEL_DOWNLOADS slots, each a Mutex<Option<Download>>, a         *)
(* Mutex<VecDeque<Download>> of waiting downloads, the REST calls          *)
(* trigger_download / cancel_download that run on the HTTP worker threads, *)
(* and one spawned task download_and_queue_next per download placed into a *)
(* slot.  Every action below is one critical section of the code (what it  *)
(* does while it holds its locks) or one step between two suspension       *)
(* points of a task; cancel_download, which takes and drops the slot locks *)
(* one after the other and only then the queue lock, is one action per     *)
(* lock it takes.                                                          *)
(*                                                                         *)
(* Option<T> is a sequence of length 0 (None) or 1 (Some).                 *)
(***************************************************************************)
EXTENDS Integers, Sequences, FiniteSets, TLC

\* ------------------------------------------------------------------ bounds
\* The pool size of the model (download.rs:18 sets 4).
MAX_PARALLEL_DOWNLOADS == 2
\* How many downloads are triggered in one behaviour (Uuid::new_v4 calls).
MaxDownloads == 4
\* The longest response body, in bytes.
MaxBytes == 2
\* How many cancel_download calls are made in one behaviour.
MaxCancels == 1

\* The length of DvbcScheduler.running (dvbc_preview.rs:114).
PREVIEW_SLOTS == 1
\* How many processes a ProcessHandler starts in one behaviour.
MaxProcesses == 3

Slots == 1..MAX_PARALLEL_DOWNLOADS
Ids   == 1..MaxDownloads

\* The relative paths the REST callers send, as their components.
InputPaths == { <<"a">>, <<"..", "a">> }

\* The urls and the query strings the callers send (Option<String>), as tokens.
InputUrls == { <<"u">> }
InputQueries == { <<>>, << <<"q">> >> }

\* The longest path of PathInputs, in components.
MaxPathLen == 3

\* What Path::components() yields: RootDir "/", CurDir ".", ParentDir "..",
\* Normal "a".  RootDir and CurDir only come first; the last component names
\* the file.
PathInputs ==
    { p \in UNION { [1..n -> {"/", ".", "..", "a"}] : n \in 1..MaxPathLen } :
        /\ \A i \in 2..Len(p) : p[i] \in {"..", "a"}
        /\ p[Len(p)] = "a" }

\* ------------------------------------------------------------------- paths
RECURSIVE FilterParentDir(_)
FilterParentDir(cs) ==
    IF cs = <<>> THEN <<>>
    ELSE IF Head(cs) = ".." THEN FilterParentDir(Tail(cs))
         ELSE <<Head(cs)>> \o FilterParentDir(Tail(cs))

\* files.rs: components().filter(|c| c != ParentDir).collect()
sanitize_path(path) == FilterParentDir(path)

\* PathBuf::join: an absolute path replaces the base.
Join(base, path) ==
    IF path /= <<>> /\ Head(path) = "/" THEN path ELSE base \o path

DOWNLOAD_FOLDER == <<"/", "dl">>

\* Every destination a task of the model can write to.
Dests == { Join(DOWNLOAD_FOLDER, sanitize_path(p)) : p \in InputPaths \cup PathInputs }

\* ------------------------------------------------------------------- state
VARIABLES
    queue,      \* DownloadManager.queue: the VecDeque<Download>
    active,     \* DownloadManager.active: slot -> Option<Download>
    nextId,     \* how many uuids Uuid::new_v4 has handed out
    task,       \* uuid -> the task spawned for that download
    files,      \* the file system: destination -> Option<length>
    cancelCall, \* the cancel_download call in progress: Option<[uuid, i, queued]>,
                \* queued: the download was in the queue when the call began
    nCancels,   \* how many cancel_download calls were made
    submitted,  \* the last trigger_download call: Option<[url, query, ret]>,
                \* ret the Download it returned
    getCall,    \* the get_download call: Option<[uuid, i, ret, fin, gone]>
    listCall,   \* the get_downloads call and the serialization of what it
                \* returned: Option<[i, active_downloads, queue, fin, tracked]>
    qlock,      \* who holds the lock of DownloadManager.queue: Option<owner>
    slock,      \* who holds the lock of each slot: slot -> Option<owner>
    submitPos,  \* where a trigger_download call that holds the queue lock is
                \* in its scan of the slots, 0 if there is none
    waiting,    \* DvbCPreviews.waiting: the VecDeque<Channel>, as channel names
    running,    \* DvbcScheduler.running: slot -> Option<[name, exited]>, exited:
                \* the ffmpeg child has ended
    scheduler,  \* the task behind DvbCPreviews.scheduler: finished, alive, panicked
    panicked,   \* the panic that ended the scheduler: none, split_off, never_happen
    open_process, \* ProcessHandler.open_process: Option<[pid, args]>
    nextPid,    \* how many processes start_process has spawned
    exited,     \* the processes that have ended
    stopCalls   \* pid -> how often handle_callbacks was called for the process

\* src/src/dvbc_preview.rs: the previews and their scheduler.
previewVars == <<waiting, running, scheduler, panicked>>
\* src/src/process.rs: one ProcessHandler.
processVars == <<open_process, nextPid, exited, stopCalls>>
\* What the download engine does not touch.
otherVars == <<previewVars, processVars>>

\* The calls that only read.
readCalls == <<getCall, listCall>>
\* The locks, and the position of the call that takes them one by one.
lockVars == <<qlock, slock, submitPos>>

\* The manager, its tasks and its calls without the locks.
dataVars == <<queue, active, nextId, task, files, cancelCall, nCancels,
              submitted, otherVars, readCalls>>

vars == <<dataVars, lockVars>>

\* The download engine alone.
downloadVars == <<queue, active, nextId, task, files, cancelCall, nCancels,
                  submitted, readCalls, lockVars>>

\* The slots of DvbcScheduler.running, the names of the channels previews
\* are asked for, the processes of the handler and what they are started with.
PreviewSlots == 1..PREVIEW_SLOTS
ChannelNames == {"c1", "c2", "c3"}
Pids == 1..MaxProcesses
ProcessArgs == {"x", "y"}

\* The task that no spawn has created yet.
NoTask ==
    [ pc       |-> "none",   \* where the task is
      slot     |-> 0,        \* the slot (Arc<Mutex<Option<Download>>>) it was given
      via      |-> "none",   \* which spawn made it: trigger_download or queue_next
      path     |-> <<>>,     \* let path = DOWNLOAD_FOLDER.join(&dl.path)
      clen     |-> <<>>,     \* response.content_length()
      off      |-> 0,        \* bytes this task has written through `file`
      chunk    |-> 0,        \* length of the chunk written and not yet counted
      fh       |-> "none",   \* `file`: none, linked (its inode is at path), unlinked
      result   |-> "none",   \* what download() returned: ok, cancelled, err
      rm       |-> "none",   \* fs::remove_file: none (not called), ok, failed
      released |-> FALSE,    \* queue_next has run
      cs       |-> FALSE ]   \* cancel_download hit the download while it streamed

\* A task that is given the slot after the one its download is in.
Spawned_OtherSlot(s, how) ==
    [NoTask EXCEPT !.pc = "start", !.slot = (s % MAX_PARALLEL_DOWNLOADS) + 1, !.via = how]

Spawned(s, how) == [NoTask EXCEPT !.pc = "start", !.slot = s, !.via = how]

Live(t) == t.pc \notin {"none", "done"}

Init ==
    /\ queue = <<>>
    /\ active = [s \in Slots |-> <<>>]
    /\ nextId = 0
    /\ task = [id \in Ids |-> NoTask]
    /\ files = [d \in Dests |-> <<>>]
    /\ cancelCall = <<>>
    /\ nCancels = 0
    /\ submitted = <<>>
    /\ getCall = <<>>
    /\ listCall = <<>>
    /\ qlock = <<>>
    /\ slock = [s \in Slots |-> <<>>]
    /\ submitPos = 0
    /\ waiting = <<>>
    /\ running = [i \in PreviewSlots |-> <<>>]
    /\ scheduler = "finished"
    /\ panicked = "none"
    /\ open_process = <<>>
    /\ nextPid = 0
    /\ exited = {}
    /\ stopCalls = [p \in Pids |-> 0]

\* ----------------------------------------------------------------- helpers
QueueIds == { queue[i].uuid : i \in 1..Len(queue) }
SlotsOf(id) == { s \in Slots : active[s] /= <<>> /\ active[s][1].uuid = id }
ActiveIds == { id \in Ids : SlotsOf(id) /= {} }
Tracked(id) == id \in ActiveIds \/ id \in QueueIds

\* The scan that does not skip a slot that is taken: it takes the first slot.
FirstEmptySlot_NoSkip(act) == 1

\* The scan that finds no slot.
FirstEmptySlot_Never(act) == 0

\* download.rs:162-165: the first slot of the scan that is None, 0 if none is.
FirstEmptySlot(act) ==
    IF \E s \in Slots : act[s] = <<>>
    THEN CHOOSE s \in Slots : act[s] = <<>> /\ \A r \in Slots : r < s => act[r] /= <<>>
    ELSE 0

\* The url without its separator.
FullUrl_NoSeparator(url, query) ==
    IF query = <<>> THEN url ELSE url \o query[1]

\* download.rs:144-147: format!("{}?{}", url, q), or url
FullUrl(url, query) ==
    IF query = <<>> THEN url ELSE url \o <<"?">> \o query[1]

\* A download that is made Running.
RawDownload_Running(uuid, full_url, path) ==
    [ status |-> "Running", uuid |-> uuid, url |-> full_url,
      path |-> sanitize_path(path), current_size |-> 0, size |-> <<>> ]

\* download.rs:149-156
RawDownload(uuid, full_url, path) ==
    [ status |-> "Created", uuid |-> uuid, url |-> full_url,
      path |-> sanitize_path(path), current_size |-> 0, size |-> <<>> ]

\* ----------------------------------------------------- trigger_download
trigger_download(url, path, query) ==
    /\ nextId < MaxDownloads
    /\ nextId' = nextId + 1
    /\ LET raw == RawDownload(nextId + 1, FullUrl(url, query), path)
           s   == FirstEmptySlot(active)
       IN  /\ IF s /= 0
              THEN /\ active' = [active EXCEPT ![s] = <<raw>>]
                   /\ task' = [task EXCEPT ![raw.uuid] = Spawned(s, "trigger")]
                   /\ UNCHANGED queue
              ELSE /\ queue' = Append(queue, raw)
                   /\ UNCHANGED <<active, task>>
           /\ submitted' = << [url |-> url, query |-> query, ret |-> raw] >>
    /\ UNCHANGED <<files, cancelCall, nCancels, otherVars, readCalls>>

\* ------------------------------------------------------------- download
\* The status left as it is.
SetRunning_Not(dl) == dl

\* The size stored before any response has come.
SetRunning_WithSize(dl) == [dl EXCEPT !.status = "Running", !.size = <<0>>]

\* download.rs:201
SetRunning(dl) == [dl EXCEPT !.status = "Running"]

\* download.rs:213
SetSize(dl, clen) == [dl EXCEPT !.size = clen]

\* The count set to the length of the chunk.
AddChunk_Set(dl, n) == [dl EXCEPT !.current_size = n]

\* The chunk counted twice.
AddChunk_Twice(dl, n) == [dl EXCEPT !.current_size = @ + n + n]

\* download.rs:231
AddChunk(dl, n) == [dl EXCEPT !.current_size = @ + n]

\* A download() that goes on to make the file after an Err.
Returned_ErrGoesOn(t, result) ==
    [t EXCEPT !.result = result, !.fh = "none", !.chunk = 0,
              !.pc = IF result = "cancelled" THEN "remove"
                     ELSE IF result = "err" THEN "create" ELSE "queue_next"]

\* A download_and_queue_next that removes the file whatever download() returned.
Returned_AlwaysRemove(t, result) ==
    [t EXCEPT !.result = result, !.fh = "none", !.chunk = 0, !.pc = "remove"]

\* A download_and_queue_next that hands the Err on with `?`.
Returned_ErrEnds(t, result) ==
    [t EXCEPT !.result = result, !.fh = "none", !.chunk = 0,
              !.pc = IF result = "cancelled" THEN "remove"
                     ELSE IF result = "err" THEN "done" ELSE "queue_next"]

\* download() returns `result` (its `file` is dropped) and
\* download_and_queue_next goes on at download.rs:183: to fs::remove_file on
\* Ok(Some(path)), to queue_next otherwise.
Returned(t, result) ==
    [t EXCEPT !.result = result, !.fh = "none", !.chunk = 0,
              !.pc = IF result = "cancelled" THEN "remove" ELSE "queue_next"]

\* download.rs:193-205: the first critical section of download().
download_start(id) ==
    /\ task[id].pc = "start"
    /\ LET s == task[id].slot
       IN  IF active[s] = <<>>
           THEN /\ task' = [task EXCEPT ![id] = Returned(@, "err")]
                /\ UNCHANGED active
           ELSE /\ active' = [active EXCEPT ![s] = <<SetRunning(active[s][1])>>]
                /\ task' = [task EXCEPT ![id].pc = "send",
                                        ![id].path = Join(DOWNLOAD_FOLDER, active[s][1].path)]
    /\ UNCHANGED <<queue, nextId, files, cancelCall, nCancels, submitted, otherVars, readCalls>>

\* What response.content_length() can be.
ContentLengths == { <<>> } \cup { <<n>> : n \in 0..MaxBytes }

\* download.rs:209-216: response_future.await?, then the critical section
\* that stores the size.
download_response(id) ==
    /\ task[id].pc = "send"
    /\ \/ task' = [task EXCEPT ![id] = Returned(@, "err")] /\ UNCHANGED active
       \/ \E clen \in ContentLengths :
            LET s == task[id].slot
            IN  IF active[s] = <<>>
                THEN /\ task' = [task EXCEPT ![id] = Returned(@, "err")]
                     /\ UNCHANGED active
                ELSE /\ active' = [active EXCEPT ![s] = <<SetSize(active[s][1], clen)>>]
                     /\ task' = [task EXCEPT ![id].pc = "create", ![id].clen = clen]
    /\ UNCHANGED <<queue, nextId, files, cancelCall, nCancels, submitted, otherVars, readCalls>>

\* download.rs:220-222: fs::create_dir_all(..)?; fs::File::create(&path)?
\* File::create truncates the file at path, or makes a new one.
download_create(id) ==
    /\ task[id].pc = "create"
    /\ \/ task' = [task EXCEPT ![id] = Returned(@, "err")] /\ UNCHANGED files
       \/ /\ files' = [files EXCEPT ![task[id].path] = <<0>>]
          /\ task' = [task EXCEPT ![id].pc = "stream", ![id].fh = "linked", ![id].off = 0]
    /\ UNCHANGED <<queue, active, nextId, cancelCall, nCancels, submitted, otherVars, readCalls>>

Max(a, b) == IF a >= b THEN a ELSE b

\* The bytes the body stream can still deliver: the client never hands out
\* more than the Content-Length it reported.
BodyLeft(t) == IF t.clen = <<>> THEN MaxBytes - t.off ELSE t.clen[1] - t.off

\* download.rs:223-226: stream.next().await, item?, file.write_all(&chunk)?
download_next(id) ==
    /\ task[id].pc = "stream"
    /\ \/ \* the stream has ended: the while loop is left, Ok(None)
          /\ task[id].clen = <<>> \/ BodyLeft(task[id]) = 0
          /\ task' = [task EXCEPT ![id] = Returned(@, "ok")]
          /\ UNCHANGED files
       \/ \* the chunk is an Err, or write_all fails
          /\ task' = [task EXCEPT ![id] = Returned(@, "err")]
          /\ UNCHANGED files
       \/ \E n \in 1..MaxBytes :
            /\ n <= BodyLeft(task[id])
            /\ files' = IF task[id].fh = "linked" /\ files[task[id].path] /= <<>>
                        THEN [files EXCEPT ![task[id].path] = <<Max(@[1], task[id].off + n)>>]
                        ELSE files
            /\ task' = [task EXCEPT ![id].pc = "update", ![id].off = @ + n, ![id].chunk = n]
    /\ UNCHANGED <<queue, active, nextId, cancelCall, nCancels, submitted, otherVars, readCalls>>

\* download.rs:228-235: the critical section after each chunk.
download_update(id) ==
    /\ task[id].pc = "update"
    /\ LET s == task[id].slot
       IN  IF active[s] = <<>>
           THEN /\ task' = [task EXCEPT ![id] = Returned(@, "err")]
                /\ UNCHANGED active
           ELSE /\ active' = [active EXCEPT ![s] = <<AddChunk(active[s][1], task[id].chunk)>>]
                /\ task' = IF active[s][1].status = "Cancelled"
                           THEN [task EXCEPT ![id] = Returned(@, "cancelled")]
                           ELSE [task EXCEPT ![id].pc = "stream", ![id].chunk = 0]
    /\ UNCHANGED <<queue, nextId, files, cancelCall, nCancels, submitted, otherVars, readCalls>>

\* ---------------------------------------------- download_and_queue_next
\* download.rs:185: fs::remove_file(path)? returned an Err, and the `?`
\* returns it from download_and_queue_next.
RemoveFailed(t) == [NoTask EXCEPT !.pc = "done", !.slot = t.slot, !.rm = "failed"]

\* The tasks whose open `file` is the file at path d lose the link.
Unlink(tk, d) ==
    [i \in Ids |-> IF tk[i].fh = "linked" /\ tk[i].path = d
                   THEN [tk[i] EXCEPT !.fh = "unlinked"] ELSE tk[i]]

\* download.rs:183-186: the download was cancelled, the file is removed.
remove_file(id) ==
    /\ task[id].pc = "remove"
    /\ \/ \* no file at path, or the file system refuses
          /\ task' = [task EXCEPT ![id] = RemoveFailed(@)]
          /\ UNCHANGED files
       \/ /\ files[task[id].path] /= <<>>
          /\ files' = [files EXCEPT ![task[id].path] = <<>>]
          /\ task' = [Unlink(task, task[id].path) EXCEPT ![id].pc = "queue_next", ![id].rm = "ok"]
    /\ UNCHANGED <<queue, active, nextId, cancelCall, nCancels, submitted, otherVars, readCalls>>

\* The second of the queue is popped when there is one.
PopFront_Second(q) ==
    IF Len(q) >= 2 THEN << <<q[2]>>, <<q[1]>> \o SubSeq(q, 3, Len(q)) >>
    ELSE IF q = <<>> THEN << <<>>, q >> ELSE << <<Head(q)>>, Tail(q) >>

\* Nothing is popped.
PopFront_None(q) == << <<>>, q >>

\* pop_back in place of pop_front.
PopFront_Back(q) ==
    IF q = <<>> THEN << <<>>, q >> ELSE << <<q[Len(q)]>>, SubSeq(q, 1, Len(q) - 1) >>

\* The front is read and stays in the queue.
PopFront_Keep(q) == IF q = <<>> THEN << <<>>, q >> ELSE << <<Head(q)>>, q >>

\* download.rs:246: q.pop_front(), as <<the Option popped, the rest>>.
PopFront(q) == IF q = <<>> THEN << <<>>, q >> ELSE << <<Head(q)>>, Tail(q) >>

\* The task has run to the end of download_and_queue_next.
Ended(t) == [NoTask EXCEPT !.pc = "done", !.released = TRUE]

\* download.rs:242-255
queue_next(id) ==
    /\ task[id].pc = "queue_next"
    /\ LET s      == task[id].slot
           popped == PopFront(queue)
       IN  /\ queue' = popped[2]
           /\ active' = [active EXCEPT ![s] = popped[1]]
           /\ task' = IF popped[1] /= <<>>
                      THEN [task EXCEPT ![id] = Ended(@),
                                        ![popped[1][1].uuid] = Spawned(s, "queue_next")]
                      ELSE [task EXCEPT ![id] = Ended(@)]
    /\ UNCHANGED <<nextId, files, cancelCall, nCancels, submitted, otherVars, readCalls>>

\* ------------------------------------------------------ cancel_download
\* The cancel that also sets the count of bytes back.
SetCancelled_Reset(dl) == [dl EXCEPT !.status = "Cancelled", !.current_size = 0]

\* download.rs:133
SetCancelled(dl) == [dl EXCEPT !.status = "Cancelled"]

\* retain with its test the wrong way round.
Retain_Inverted(q, uuid) == SelectSeq(q, LAMBDA dl : dl.uuid = uuid)

\* download.rs:140: q.retain(|dl| dl.uuid != uuid)
Retain(q, uuid) == SelectSeq(q, LAMBDA dl : dl.uuid /= uuid)

\* download.rs:129-137: one turn of the loop over the slots, for the call c.
cancel_scan(c) ==
    /\ UNCHANGED <<queue, nextId, files, submitted, otherVars, readCalls>>
    /\ IF active[c.i] /= <<>> /\ active[c.i][1].uuid = c.uuid
       THEN /\ active' = [active EXCEPT ![c.i] = <<SetCancelled(active[c.i][1])>>]
            /\ task' = [task EXCEPT ![c.uuid].cs = @ \/ task[c.uuid].pc \in {"stream", "update"}]
            /\ cancelCall' = <<>>
       ELSE /\ cancelCall' = <<[c EXCEPT !.i = @ + 1]>>
            /\ UNCHANGED <<active, task>>

\* cancel_download(uuid) is called, for a uuid handed out before, and
\* looks at the first slot.
cancel_download(uuid) ==
    /\ cancelCall = <<>>
    /\ uuid \in 1..nextId
    /\ nCancels < MaxCancels
    /\ nCancels' = nCancels + 1
    /\ cancel_scan([uuid |-> uuid, i |-> 1, queued |-> uuid \in QueueIds])

\* The call looks at its next slot.
cancel_next_slot ==
    /\ UNCHANGED nCancels
    /\ cancelCall /= <<>>
    /\ cancelCall[1].i \in Slots
    /\ cancel_scan(cancelCall[1])

\* download.rs:140: all slots were looked at; the queue is locked and searched.
cancel_queue ==
    /\ UNCHANGED nCancels
    /\ cancelCall /= <<>>
    /\ cancelCall[1].i \notin Slots
    /\ queue' = Retain(queue, cancelCall[1].uuid)
    /\ cancelCall' = <<>>
    /\ UNCHANGED <<active, nextId, task, files, submitted, otherVars, readCalls>>

\* --------------------------------------------------------- get_download
\* The first download of the queue with this uuid, as an Option.
FindFirst(q, uuid) ==
    IF \E k \in 1..Len(q) : q[k].uuid = uuid
    THEN << q[CHOOSE k \in 1..Len(q) :
                /\ q[k].uuid = uuid
                /\ \A j \in 1..(k - 1) : q[j].uuid /= uuid] >>
    ELSE <<>>

\* download.rs:100-107: one slot of the loop: the slot is locked, the download
\* in it is returned as a clone if it has the uuid, and the lock is dropped.
get_scan(c) ==
    /\ IF active[c.i] /= <<>> /\ active[c.i][1].uuid = c.uuid
       THEN getCall' = << [c EXCEPT !.ret = <<active[c.i][1]>>, !.fin = TRUE] >>
       ELSE getCall' = << [c EXCEPT !.i = @ + 1] >>
    /\ UNCHANGED <<queue, active, nextId, task, files, cancelCall, nCancels,
                   submitted, otherVars, listCall>>

\* get_download(uuid) is called, for a uuid handed out before, and looks at
\* the first slot.  gone: when the call began the task of the download had
\* ended, or the download had no task and was in no slot and not in the queue.
get_download(uuid) ==
    /\ getCall = <<>>
    /\ uuid \in 1..nextId
    /\ get_scan([ uuid |-> uuid, i |-> 1, ret |-> <<>>, fin |-> FALSE,
                  gone |-> \/ task[uuid].pc = "done"
                           \/ task[uuid].pc = "none" /\ ~Tracked(uuid) ])

\* The call looks at its next slot.
get_next_slot ==
    /\ getCall /= <<>>
    /\ ~getCall[1].fin
    /\ getCall[1].i \in Slots
    /\ get_scan(getCall[1])

\* download.rs:110-117: no slot had the uuid; the queue is locked and searched.
get_queue ==
    /\ getCall /= <<>>
    /\ ~getCall[1].fin
    /\ getCall[1].i \notin Slots
    /\ getCall' = << [getCall[1] EXCEPT !.ret = FindFirst(queue, getCall[1].uuid),
                                        !.fin = TRUE] >>
    /\ UNCHANGED <<queue, active, nextId, task, files, cancelCall, nCancels,
                   submitted, otherVars, listCall>>

\* -------------------------------------------------------- get_downloads
\* download.rs:121-123: one slot of filter_map: the slot is locked, its
\* download, if any, is cloned into active_downloads, and the lock is dropped.
list_scan(c) ==
    /\ listCall' = << [c EXCEPT !.i = @ + 1,
                                !.active_downloads = @ \o active[c.i]] >>
    /\ UNCHANGED <<queue, active, nextId, task, files, cancelCall, nCancels,
                   submitted, otherVars, getCall>>

\* get_downloads() is called and looks at the first slot.  tracked: the
\* uuids that were in a slot or in the queue when the call began.
get_downloads ==
    /\ listCall = <<>>
    /\ list_scan([ i |-> 1, active_downloads |-> <<>>, queue |-> <<>>,
                   fin |-> FALSE, tracked |-> { id \in Ids : Tracked(id) } ])

\* The call looks at its next slot.
list_next_slot ==
    /\ listCall /= <<>>
    /\ listCall[1].i \in Slots
    /\ list_scan(listCall[1])

\* download.rs:124 and main.rs:143: Downloads{queue: self.queue.clone(), ..}
\* holds the queue itself; json() locks it and writes what is in it then.
list_serialize ==
    /\ listCall /= <<>>
    /\ ~listCall[1].fin
    /\ listCall[1].i \notin Slots
    /\ listCall' = << [listCall[1] EXCEPT !.queue = queue, !.fin = TRUE] >>
    /\ UNCHANGED <<queue, active, nextId, task, files, cancelCall, nCancels,
                   submitted, otherVars, getCall>>

\* ------------------------------------------------------------------ claims
\* The tracked download with this uuid.
RecordOf(id) ==
    IF SlotsOf(id) /= {}
    THEN active[CHOOSE s \in SlotsOf(id) : TRUE][1]
    ELSE queue[CHOOSE i \in 1..Len(queue) : queue[i].uuid = id]

\* How often the uuid occurs in the slots and in the queue.
Occurrences(id) ==
    Cardinality(SlotsOf(id)) + Cardinality({ i \in 1..Len(queue) : queue[i].uuid = id })

LiveIds == { id \in Ids : Live(task[id]) }
LiveOn(s) == { id \in LiveIds : task[id].slot = s }
NoneEnded == \A id \in Ids : task[id].pc /= "done"

\* C1: every task runs queue_next in the end: once a task has ended, the slot
\* it was given is empty or holds another download, so no slot stays taken
\* by a download whose task has ended.
C1_EndedTaskReleasedItsSlot ==
    \A id \in Ids : task[id].pc = "done" => SlotsOf(id) = {}

\* C2: a failure of fs::remove_file on the file of a cancelled download is
\* not fatal: the task goes on to queue_next, which frees the slot or hands
\* it to the next download of the queue.
C2_RemoveFailureStillReleases ==
    \A id \in Ids :
        task[id].rm = "failed" => task[id].pc = "queue_next" \/ task[id].released

\* C3: at most MAX_PARALLEL_DOWNLOADS transfers are active in every state:
\* each slot holds at most one download, at most one live task works on a
\* slot, and no task exists for a download that is in the queue.
C3_AtMostNTransfers ==
    /\ Cardinality(LiveIds) <= MAX_PARALLEL_DOWNLOADS
    /\ Cardinality(ActiveIds) <= MAX_PARALLEL_DOWNLOADS
    /\ \A s \in Slots : Len(active[s]) <= 1 /\ Cardinality(LiveOn(s)) <= 1
    /\ \A id \in QueueIds : task[id].pc = "none"

\* All slots are taken by downloads with live tasks and a download waits.
C3_Witness ==
    /\ \A s \in Slots : active[s] /= <<>> /\ Cardinality(LiveOn(s)) = 1
    /\ queue /= <<>>

\* C4, each call: trigger_download puts the new download into an empty slot
\* and spawns exactly one task for it when a slot is empty, and appends it to
\* the queue, with no task, only when every slot is taken.
C4_Step ==
    nextId' /= nextId =>
        LET id == nextId'
        IN  IF \E s \in Slots : active[s] = <<>>
            THEN /\ \E s \in Slots :
                      /\ active[s] = <<>>
                      /\ active'[s] /= <<>> /\ active'[s][1].uuid = id
                      /\ \A r \in Slots \ {s} : active'[r] = active[r]
                      /\ task'[id].pc = "start" /\ task'[id].slot = s
                 /\ \A other \in Ids \ {id} : task'[other] = task[other]
                 /\ queue' = queue
            ELSE /\ Len(queue') = Len(queue) + 1
                 /\ SubSeq(queue', 1, Len(queue)) = queue
                 /\ queue'[Len(queue')].uuid = id
                 /\ active' = active
                 /\ task' = task

\* C4, the sum: as long as no task has ended, the first
\* MAX_PARALLEL_DOWNLOADS downloads are in the slots and every later one is
\* not, and has no task.
C4_Inv ==
    NoneEnded =>
        \A id \in 1..nextId :
            IF id <= MAX_PARALLEL_DOWNLOADS
            THEN SlotsOf(id) = {id} /\ id \notin QueueIds /\ Live(task[id])
            ELSE SlotsOf(id) = {} /\ task[id].pc = "none"

\* C4: trigger_download fills an empty slot when there is one and queues
\* only when all slots are taken: MAX_PARALLEL_DOWNLOADS calls leave the
\* slots taken and the queue empty, the next call leaves its download in the
\* queue with no task.
C4_SubmitPlacesOrQueues == []C4_Inv /\ [][C4_Step]_vars

\* One call more than there are slots, and no task has ended: the last
\* download waits with no task.
C4_Witness ==
    /\ NoneEnded
    /\ nextId = MAX_PARALLEL_DOWNLOADS + 1
    /\ \A s \in Slots : active[s] /= <<>>
    /\ Len(queue) = 1 /\ queue[1].uuid = nextId /\ task[nextId].pc = "none"

\* Where the uuid stands in the queue q.
Pos(q, id) == CHOOSE i \in 1..Len(q) : q[i].uuid = id

\* C5, each step: a task that ends in queue_next while downloads wait hands
\* its slot to the head of the queue; a download that comes from the queue
\* into a slot was its head; downloads that stay in the queue keep their order.
C5_Step ==
    /\ \A id \in Ids :
          task[id].pc = "queue_next" /\ task'[id].pc = "done" /\ queue /= <<>> =>
              /\ active'[task[id].slot] = <<Head(queue)>>
              /\ queue' = Tail(queue)
    /\ \A s \in Slots :
          active'[s] /= <<>> /\ active'[s][1].uuid \in QueueIds =>
              /\ active'[s] = <<Head(queue)>>
              /\ queue' = Tail(queue)
    /\ \A i, j \in 1..Len(queue') :
          i < j /\ queue'[i].uuid \in QueueIds /\ queue'[j].uuid \in QueueIds =>
              Pos(queue, queue'[i].uuid) < Pos(queue, queue'[j].uuid)

C6_OneOwner == \A id \in Ids : Occurrences(id) <= 1

\* The slots are taken and two downloads wait: four uuids, one place each.
C6_Witness ==
    /\ \A s \in Slots : active[s] /= <<>>
    /\ Len(queue) = 2
    /\ \A id \in 1..nextId : Occurrences(id) = 1

\* C7: cancel_download of a download that is in the queue removes it for
\* good: when the call returns, the download is in no slot and not in the
\* queue (so that no task is started and no file is made for it later).
C7_QueuedCancelRemoves ==
    [][ cancelCall /= <<>> /\ cancelCall' = <<>> /\ cancelCall[1].queued =>
            LET u == cancelCall[1].uuid
            IN  /\ \A s \in Slots : active'[s] = <<>> \/ active'[s][1].uuid /= u
                /\ \A i \in 1..Len(queue') : queue'[i].uuid /= u ]_vars

\* C8: after cancel_download of a download whose task is streaming, the task
\* writes at most one more chunk, leaves the loop as cancelled, removes the
\* file and goes on to queue_next.
C8_StreamingCancelCleansUp ==
    [][ \A id \in Ids :
            task[id].cs =>
                /\ task[id].pc = "update" => task'[id].pc /= "stream"
                /\ task[id].pc \in {"stream", "update"}
                   /\ task'[id].pc \notin {"stream", "update"} => task'[id].pc = "remove"
                /\ task[id].pc = "remove" /\ task'[id].pc /= "remove" =>
                       /\ task'[id].pc = "queue_next"
                       /\ files'[task[id].path] = <<>> ]_vars

Rank(status) ==
    CASE status = "Created" -> 0 [] status = "Running" -> 1 [] status = "Cancelled" -> 2

\* C9: the status of a download moves only Created -> Running -> Cancelled:
\* a Cancelled download stays Cancelled and none goes back to Created, so
\* that each of the two moves is made at most once.
C9_StatusOnlyForward ==
    [][ \A id \in Ids :
            Tracked(id) /\ Tracked(id)' =>
                Rank(RecordOf(id).status) <= Rank(RecordOf(id).status') ]_vars

\* C10, each state: current_size is at most size when size is known.
C10_Inv ==
    /\ \A s \in Slots :
          active[s] /= <<>> /\ active[s][1].size /= <<>> =>
              active[s][1].current_size <= active[s][1].size[1]
    /\ \A i \in 1..Len(queue) :
          queue[i].size /= <<>> => queue[i].current_size <= queue[i].size[1]

\* C10, each step: current_size of a download does not go down.
C10_Step ==
    \A id \in Ids :
        Tracked(id) /\ Tracked(id)' =>
            RecordOf(id).current_size <= RecordOf(id).current_size'

\* C10: current_size of a download never goes down, and it is at most size
\* in every state where size is known.
C10_BytesMonotoneAndBounded == []C10_Inv /\ [][C10_Step]_vars

\* A download of known size has counted its chunks and reached its size.
C10_Witness ==
    \E s \in Slots :
        /\ active[s] /= <<>>
        /\ active[s][1].size = <<MaxBytes>> /\ active[s][1].current_size = MaxBytes
        /\ task[active[s][1].uuid].pc = "stream"

\* C13: when every task has run to its end and no call is under way, the
\* queue is empty and every slot is empty: nothing is left that no step of a
\* task will ever promote or drop.
C13_QueueAndSlotsDrain ==
    (cancelCall = <<>> /\ \A id \in Ids : ~Live(task[id]))
        => (queue = <<>> /\ \A s \in Slots : active[s] = <<>>)

\* C15: the step in which download() of a task fails changes no slot and not
\* the queue and leads to queue_next; queue_next of that task then takes its
\* download out of its slot, leaves every other slot as it is, and either
\* leaves the queue as it is or moves its head into the slot.
C15_Step ==
    \A id \in Ids :
        /\ (task[id].result /= "err" /\ task'[id].result = "err") =>
              /\ task'[id].pc = "queue_next"
              /\ active' = active
              /\ queue' = queue
        /\ (task[id].result = "err" /\ task'[id] /= task[id]) =>
              /\ task'[id].pc = "done" /\ task'[id].released
              /\ ~Tracked(id)'
              /\ \A s \in Slots \ {task[id].slot} : active'[s] = active[s]
              /\ \/ queue' = queue /\ queue = <<>> /\ active'[task[id].slot] = <<>>
                 \/ /\ queue /= <<>>
                    /\ queue' = Tail(queue)
                    /\ active'[task[id].slot] = <<Head(queue)>>

C15_FailureIsConfined == [][C15_Step]_vars

\* A task whose download() has failed is about to run queue_next while the
\* other slot is taken and a download waits in the queue.
C15_Witness ==
    \E id \in Ids :
        /\ task[id].result = "err" /\ task[id].pc = "queue_next"
        /\ \A s \in Slots : active[s] /= <<>>
        /\ queue /= <<>>

\* C16: a step of a cancel_download call whose uuid is in no slot and not in
\* the queue changes no slot, no download, not the queue, no task and no
\* file; and the step that searches the queue ends the call.
C16_Step ==
    /\ (cancelCall /= <<>> /\ cancelCall' /= cancelCall /\ ~Tracked(cancelCall[1].uuid)) =>
          /\ <<active, queue, task, files>>' = <<active, queue, task, files>>
          /\ cancelCall[1].i \notin Slots => cancelCall' = <<>>
    /\ (cancelCall = <<>> /\ cancelCall' /= <<>> /\ ~Tracked(cancelCall'[1].uuid)) =>
          <<active, queue, task, files>>' = <<active, queue, task, files>>

C16_UnknownCancelChangesNothing == [][C16_Step]_vars

\* A cancel_download call for a download that is gone has looked at every
\* slot, all of them taken, and is about to search a queue that is not empty.
C16_Witness ==
    /\ cancelCall /= <<>>
    /\ cancelCall[1].i \notin Slots
    /\ ~Tracked(cancelCall[1].uuid)
    /\ ~cancelCall[1].queued
    /\ \A s \in Slots : active[s] /= <<>>
    /\ queue /= <<>>

\* The calls and the tasks, each critical section in one step.
Next ==
    \/ \E u \in InputUrls, p \in InputPaths :
          trigger_download(u, p, <<>>) /\ UNCHANGED lockVars
    \/ \E id \in Ids : download_start(id) /\ UNCHANGED lockVars
    \/ \E id \in Ids : download_response(id) /\ UNCHANGED lockVars
    \/ \E id \in Ids : download_create(id) /\ UNCHANGED lockVars
    \/ \E id \in Ids : download_next(id) /\ UNCHANGED lockVars
    \/ \E id \in Ids : download_update(id) /\ UNCHANGED lockVars
    \/ \E id \in Ids : remove_file(id) /\ UNCHANGED lockVars
    \/ \E id \in Ids : queue_next(id) /\ UNCHANGED lockVars
    \/ \E id \in Ids : cancel_download(id) /\ UNCHANGED lockVars
    \/ cancel_next_slot /\ UNCHANGED lockVars
    \/ cancel_queue /\ UNCHANGED lockVars

Spec == Init /\ [][Next]_vars

\* ------------------------------------------------------------ a scenario
\* Four downloads A, B, C, D (uuids 1 to 4) are triggered; then B is
\* cancelled; B ends after the cancel_download call has returned; then A
\* ends, successfully.  C and D do not end.
NextScenario ==
    \/ \E u \in InputUrls, p \in InputPaths :
          trigger_download(u, p, <<>>) /\ UNCHANGED lockVars
    \/ \E id \in Ids : download_start(id) /\ UNCHANGED lockVars
    \/ \E id \in Ids :
          download_response(id) /\ (id = 1 => task'[id].result /= "err") /\ UNCHANGED lockVars
    \/ \E id \in Ids :
          download_create(id) /\ (id = 1 => task'[id].result /= "err") /\ UNCHANGED lockVars
    \/ \E id \in Ids :
          download_next(id) /\ (id = 1 => task'[id].result /= "err") /\ UNCHANGED lockVars
    \/ \E id \in Ids : download_update(id) /\ UNCHANGED lockVars
    \/ nCancels = 1 /\ cancelCall = <<>> /\ remove_file(2) /\ UNCHANGED lockVars
    \/ nCancels = 1 /\ cancelCall = <<>> /\ queue_next(2) /\ UNCHANGED lockVars
    \/ task[2].pc = "done" /\ queue_next(1) /\ UNCHANGED lockVars
    \/ nextId = MaxDownloads /\ cancel_download(2) /\ UNCHANGED lockVars
    \/ cancel_next_slot /\ UNCHANGED lockVars

SpecScenario == Init /\ [][NextScenario]_vars

QueueUuids == [i \in 1..Len(queue) |-> queue[i].uuid]

\* C14: with two slots, once A, B, C, D are triggered and before a task has
\* ended, A and B are in slots and the queue is [C, D]; once B has ended
\* after its cancel, C is in a slot and the queue is [D]; once A has ended
\* too, D is in a slot and the queue is empty.
C14_Scenario ==
    (MAX_PARALLEL_DOWNLOADS = 2 /\ nextId = 4) =>
        /\ NoneEnded => ActiveIds = {1, 2} /\ QueueUuids = <<3, 4>>
        /\ (task[2].pc = "done" /\ task[1].pc /= "done") =>
              3 \in ActiveIds /\ QueueUuids = <<4>>
        /\ (task[2].pc = "done" /\ task[1].pc = "done") =>
              {3, 4} \subseteq ActiveIds /\ queue = <<>>

\* ------------------------------------------------------- get_download
\* How many downloads are triggered in a behaviour of SpecGone.
GoneDownloads == 2

\* The calls and the tasks of Spec and one get_download call.
NextGone ==
    \/ \E u \in InputUrls, p \in InputPaths :
          nextId < GoneDownloads /\ trigger_download(u, p, <<>>) /\ UNCHANGED lockVars
    \/ \E id \in Ids : download_start(id) /\ UNCHANGED lockVars
    \/ \E id \in Ids : download_response(id) /\ UNCHANGED lockVars
    \/ \E id \in Ids : download_create(id) /\ UNCHANGED lockVars
    \/ \E id \in Ids : download_next(id) /\ UNCHANGED lockVars
    \/ \E id \in Ids : download_update(id) /\ UNCHANGED lockVars
    \/ \E id \in Ids : remove_file(id) /\ UNCHANGED lockVars
    \/ \E id \in Ids : queue_next(id) /\ UNCHANGED lockVars
    \/ \E id \in Ids : cancel_download(id) /\ UNCHANGED lockVars
    \/ cancel_next_slot /\ UNCHANGED lockVars
    \/ cancel_queue /\ UNCHANGED lockVars
    \/ \E id \in Ids : get_download(id) /\ UNCHANGED lockVars
    \/ get_next_slot /\ UNCHANGED lockVars
    \/ get_queue /\ UNCHANGED lockVars

SpecGone == Init /\ [][NextGone]_vars

\* C17: a get_download call that began when the task of the download had
\* ended, or when the download had been taken out of the queue, returns None;
\* and a uuid that was handed out and is in no slot and not in the queue is
\* in no slot and not in the queue after every step.
C17_Inv ==
    (getCall /= <<>> /\ getCall[1].fin /\ getCall[1].gone) => getCall[1].ret = <<>>

C17_Step ==
    \A id \in 1..nextId : ~Tracked(id) => ~Tracked(id)'

C17_GoneStaysGone == []C17_Inv /\ [][C17_Step]_vars

\* How many downloads are triggered in a behaviour of SpecGet and SpecList.
ReadDownloads == 3

\* trigger_download, the tasks and one get_download call.
NextGet ==
    \/ \E u \in InputUrls, p \in InputPaths :
          nextId < ReadDownloads /\ trigger_download(u, p, <<>>) /\ UNCHANGED lockVars
    \/ \E id \in Ids : download_start(id) /\ UNCHANGED lockVars
    \/ \E id \in Ids : download_response(id) /\ UNCHANGED lockVars
    \/ \E id \in Ids : download_create(id) /\ UNCHANGED lockVars
    \/ \E id \in Ids : download_next(id) /\ UNCHANGED lockVars
    \/ \E id \in Ids : download_update(id) /\ UNCHANGED lockVars
    \/ \E id \in Ids : queue_next(id) /\ UNCHANGED lockVars
    \/ \E id \in Ids : get_download(id) /\ UNCHANGED lockVars
    \/ get_next_slot /\ UNCHANGED lockVars
    \/ get_queue /\ UNCHANGED lockVars

SpecGet == Init /\ [][NextGet]_vars

\* C18: when a get_download call returns and its uuid is in a slot or in the
\* queue (it then was from the beginning of the call on, a uuid does not come
\* back), the call returns the download with that uuid.
C18_Step ==
    (/\ getCall' /= <<>> /\ getCall'[1].fin
     /\ getCall = <<>> \/ ~getCall[1].fin
     /\ Tracked(getCall'[1].uuid))
        => /\ getCall'[1].ret /= <<>>
           /\ getCall'[1].ret[1].uuid = getCall'[1].uuid

C18_GetFindsTracked == [][C18_Step]_vars

\* -------------------------------------------------------- get_downloads
\* trigger_download, the tasks and one get_downloads call; of the answers of
\* the server those without Content-Length whose body is one chunk.
NextList ==
    \/ \E u \in InputUrls, p \in InputPaths :
          nextId < ReadDownloads /\ trigger_download(u, p, <<>>) /\ UNCHANGED lockVars
    \/ \E id \in Ids : download_start(id) /\ UNCHANGED lockVars
    \/ \E id \in Ids : download_response(id) /\ task'[id].clen = <<>> /\ UNCHANGED lockVars
    \/ \E id \in Ids : download_create(id) /\ UNCHANGED lockVars
    \/ \E id \in Ids : download_next(id) /\ task'[id].chunk \in {0, MaxBytes} /\ UNCHANGED lockVars
    \/ \E id \in Ids : download_update(id) /\ UNCHANGED lockVars
    \/ \E id \in Ids : queue_next(id) /\ UNCHANGED lockVars
    \/ get_downloads /\ UNCHANGED lockVars
    \/ list_next_slot /\ UNCHANGED lockVars
    \/ list_serialize /\ UNCHANGED lockVars

SpecList == Init /\ [][NextList]_vars

\* How often the uuid occurs in a sequence of downloads.
CountIn(dls, id) == Cardinality({ k \in 1..Len(dls) : dls[k].uuid = id })

\* C19: when the answer of get_downloads is written, every uuid that was in a
\* slot or in the queue when the call began and still is (it then was all
\* the time) occurs exactly once in active_downloads and queue together.
C19_Step ==
    (/\ listCall /= <<>> /\ ~listCall[1].fin
     /\ listCall' /= <<>> /\ listCall'[1].fin)
        => \A id \in listCall[1].tracked :
               Tracked(id) =>
                   CountIn(listCall'[1].active_downloads, id)
                       + CountIn(listCall'[1].queue, id) = 1

C19_ListShowsTracked == [][C19_Step]_vars

\* ----------------------------------------------------- trigger_download
\* How many downloads are triggered in a behaviour of SpecSubmit.
SubmitDownloads == 3

\* trigger_download with and without a query, and the tasks.
NextSubmit ==
    \/ \E u \in InputUrls, p \in InputPaths, q \in InputQueries :
          nextId < SubmitDownloads /\ trigger_download(u, p, q) /\ UNCHANGED lockVars
    \/ \E id \in Ids : download_start(id) /\ UNCHANGED lockVars
    \/ \E id \in Ids : download_response(id) /\ UNCHANGED lockVars
    \/ \E id \in Ids : download_create(id) /\ UNCHANGED lockVars
    \/ \E id \in Ids : download_next(id) /\ UNCHANGED lockVars
    \/ \E id \in Ids : download_update(id) /\ UNCHANGED lockVars
    \/ \E id \in Ids : queue_next(id) /\ UNCHANGED lockVars

SpecSubmit == Init /\ [][NextSubmit]_vars

\* The uuids of the downloads in the slots and in the queue.
TrackedUuids ==
    { active[s][1].uuid : s \in { r \in Slots : active[r] /= <<>> } }
        \cup { queue[k].uuid : k \in 1..Len(queue) }

\* C20: the Download that trigger_download returns has a uuid that no earlier
\* call returned and that no slot and no place of the queue holds, has
\* current_size 0, no size and status Created or Running; its url begins
\* with the url of the call, and goes on with "?" and the query when the
\* call has one, and with nothing when it has none.
C20_Step ==
    nextId' /= nextId =>
        LET c == submitted'[1]
            r == c.ret
            n == Len(c.url)
        IN  /\ r.uuid \notin 1..nextId
            /\ r.uuid \notin TrackedUuids
            /\ r.current_size = 0
            /\ r.size = <<>>
            /\ r.status \in {"Created", "Running"}
            /\ Len(r.url) >= n
            /\ SubSeq(r.url, 1, n) = c.url
            /\ c.query = <<>> => Len(r.url) = n
            /\ c.query /= <<>> =>
                   /\ Len(r.url) = n + 1 + Len(c.query[1])
                   /\ r.url[n + 1] = "?"
                   /\ SubSeq(r.url, n + 2, Len(r.url)) = c.query[1]

C20_SubmitReturnsInitialRecord == [][C20_Step]_vars

\* A call with a query has returned the download that now waits in the queue,
\* while a download without a query runs.
C20_Witness ==
    /\ submitted /= <<>> /\ submitted[1].query /= <<>>
    /\ Len(queue) = 1
    /\ queue[1] = submitted[1].ret
    /\ queue[1].url = <<"u", "?", "q">>
    /\ \E s \in Slots : active[s] /= <<>> /\ active[s][1].url = <<"u">>
                           /\ active[s][1].status = "Running"

\* ------------------------------------------------------ paths, end to end
\* One download, triggered with any path of PathInputs, and its task.
NextPath ==
    \/ \E u \in InputUrls, p \in PathInputs :
          nextId = 0 /\ trigger_download(u, p, <<>>) /\ UNCHANGED lockVars
    \/ \E id \in Ids : download_start(id) /\ UNCHANGED lockVars
    \/ \E id \in Ids : download_response(id) /\ UNCHANGED lockVars
    \/ \E id \in Ids : download_create(id) /\ UNCHANGED lockVars
    \/ \E id \in Ids : download_next(id) /\ UNCHANGED lockVars
    \/ \E id \in Ids : download_update(id) /\ UNCHANGED lockVars
    \/ \E id \in Ids : queue_next(id) /\ UNCHANGED lockVars

SpecPath == Init /\ [][NextPath]_vars

\* The location is the download root or lies below it.
UnderRoot(d) ==
    /\ Len(d) >= Len(DOWNLOAD_FOLDER)
    /\ SubSeq(d, 1, Len(DOWNLOAD_FOLDER)) = DOWNLOAD_FOLDER
    /\ \A i \in 1..Len(d) : d[i] /= ".."

\* ------------------------------------------------------------ the locks
\* The same calls and tasks with their locks.  A step begins with a lock() and
\* is enabled when that mutex is free; it runs to the next lock() of the call
\* or task, or to its end, and qlock and slock say what is held between two
\* steps.  What a step does to the downloads is the action above.
TaskOwner(id) == [who |-> "task", id |-> id]
Caller(name) == [who |-> name, id |-> 0]

\* A call that keeps the lock of every slot it has looked at.
KeptSlotLocks_All(name, i) == 1..i

\* download.rs:100-107, 129-138: the slot locks a get_download or
\* cancel_download call holds when it has looked at slot i and goes on: none,
\* the guard `dl` lives in the body of the loop.
KeptSlotLocks(name, i) == {}

HoldsSlot(o) == { s \in Slots : slock[s] = <<o>> }

\* The owner holds the locks of these slots and of no other.
HoldSlots(o, keep) ==
    slock' = [s \in Slots |-> IF s \in keep THEN <<o>>
                              ELSE IF slock[s] = <<o>> THEN <<>> ELSE slock[s]]

\* A guard that lives on after its block.
TaskKeptLocks_Guard(s) == {s}

\* download.rs:194-205, 211-216, 228-235: the slot locks a task holds when it
\* leaves a critical section of download() for the slot s: none, dl_guard is
\* dropped at the end of its block, before the next await.
TaskKeptLocks(s) == {}

\* download.rs:199-205, 212-215, 228-235: a critical section of download(),
\* under the lock of the slot of the task.
locked_start(id) ==
    /\ Live(task[id])
    /\ slock[task[id].slot] = <<>>
    /\ download_start(id)
    /\ HoldSlots(TaskOwner(id), TaskKeptLocks(task[id].slot))
    /\ UNCHANGED <<qlock, submitPos>>

\* download.rs:209-216: send() fails and no lock is taken, or the response has
\* come and its length is stored under the lock of the slot.
locked_response(id) ==
    /\ Live(task[id])
    /\ download_response(id)
    /\ task'[id].pc = "create" => slock[task[id].slot] = <<>>
    /\ HoldSlots(TaskOwner(id),
                 IF task'[id].pc = "create" THEN TaskKeptLocks(task[id].slot) ELSE {})
    /\ UNCHANGED <<qlock, submitPos>>

locked_update(id) ==
    /\ Live(task[id])
    /\ slock[task[id].slot] = <<>>
    /\ download_update(id)
    /\ HoldSlots(TaskOwner(id), TaskKeptLocks(task[id].slot))
    /\ UNCHANGED <<qlock, submitPos>>

\* download.rs:243: queue.lock() of queue_next.
task_lock_queue(id) ==
    /\ task[id].pc = "queue_next"
    /\ qlock = <<>>
    /\ qlock' = <<TaskOwner(id)>>
    /\ UNCHANGED <<dataVars, slock, submitPos>>

\* download.rs:244-255: download.lock() of queue_next, the queue lock held;
\* both locks are dropped at the end.
locked_queue_next(id) ==
    /\ qlock = <<TaskOwner(id)>>
    /\ slock[task[id].slot] = <<>>
    /\ queue_next(id)
    /\ qlock' = <<>>
    /\ UNCHANGED <<slock, submitPos>>

\* download.rs:159: queue.lock() of trigger_download.
submit_lock_queue ==
    /\ submitPos = 0
    /\ nextId < MaxDownloads
    /\ qlock = <<>>
    /\ qlock' = <<Caller("submit")>>
    /\ submitPos' = 1
    /\ UNCHANGED <<dataVars, slock>>

\* download.rs:162-164: active_lock.lock(), the queue lock held; the slot is
\* taken and not the last one: the loop goes on.
submit_skip ==
    /\ submitPos \in Slots
    /\ submitPos < MAX_PARALLEL_DOWNLOADS
    /\ slock[submitPos] = <<>>
    /\ active[submitPos] /= <<>>
    /\ submitPos' = submitPos + 1
    /\ UNCHANGED <<dataVars, qlock, slock>>

\* download.rs:162-171: active_lock.lock(), the queue lock held; the slot is
\* None, the download is placed and the call returns.
submit_place(url, path, query) ==
    /\ submitPos \in Slots
    /\ slock[submitPos] = <<>>
    /\ active[submitPos] = <<>>
    /\ trigger_download(url, path, query)
    /\ qlock' = <<>>
    /\ submitPos' = 0
    /\ UNCHANGED slock

\* download.rs:162-177: active_lock.lock(), the queue lock held; the last slot
\* is taken too, the download is queued and the call returns.
submit_push(url, path, query) ==
    /\ submitPos = MAX_PARALLEL_DOWNLOADS
    /\ slock[submitPos] = <<>>
    /\ active[submitPos] /= <<>>
    /\ trigger_download(url, path, query)
    /\ qlock' = <<>>
    /\ submitPos' = 0
    /\ UNCHANGED slock

\* download.rs:129-138: download.lock() of cancel_download for the first slot.
locked_cancel_first(uuid) ==
    /\ slock[1] = <<>>
    /\ cancel_download(uuid)
    /\ HoldSlots(Caller("cancel"),
                 IF cancelCall' = <<>> THEN {} ELSE KeptSlotLocks("cancel", 1))
    /\ UNCHANGED <<qlock, submitPos>>

\* The same for the next slot.
locked_cancel_next ==
    /\ cancelCall /= <<>>
    /\ cancelCall[1].i \in Slots
    /\ slock[cancelCall[1].i] = <<>>
    /\ cancel_next_slot
    /\ HoldSlots(Caller("cancel"),
                 IF cancelCall' = <<>> THEN {}
                 ELSE KeptSlotLocks("cancel", cancelCall[1].i))
    /\ UNCHANGED <<qlock, submitPos>>

\* download.rs:140: self.queue.lock() of cancel_download; the call returns.
locked_cancel_queue ==
    /\ qlock = <<>>
    /\ cancel_queue
    /\ HoldSlots(Caller("cancel"), {})
    /\ UNCHANGED <<qlock, submitPos>>

\* get_download and get_downloads change nothing of the manager.  Of these
\* calls the steps below keep where the call is, not the clones it has made.
\* download.rs:100-107: download.lock() of get_download for its next slot; the
\* call returns if the slot has the uuid, and goes on if not.
get_locked_slot(c) ==
    /\ c.i \in Slots
    /\ slock[c.i] = <<>>
    /\ IF active[c.i] /= <<>> /\ active[c.i][1].uuid = c.uuid
       THEN getCall' = <<>> /\ HoldSlots(Caller("get"), {})
       ELSE /\ getCall' = << [c EXCEPT !.i = @ + 1] >>
            /\ HoldSlots(Caller("get"), KeptSlotLocks("get", c.i))
    /\ UNCHANGED <<queue, active, nextId, task, files, cancelCall, nCancels,
                   submitted, otherVars, listCall, qlock, submitPos>>

locked_get_first(uuid) ==
    /\ getCall = <<>>
    /\ uuid \in 1..nextId
    /\ get_locked_slot([uuid |-> uuid, i |-> 1, ret |-> <<>>, fin |-> FALSE, gone |-> FALSE])

locked_get_next ==
    /\ getCall /= <<>>
    /\ get_locked_slot(getCall[1])

\* download.rs:110-117: self.queue.lock() of get_download; the call returns.
locked_get_queue ==
    /\ getCall /= <<>>
    /\ getCall[1].i \notin Slots
    /\ qlock = <<>>
    /\ getCall' = <<>>
    /\ HoldSlots(Caller("get"), {})
    /\ UNCHANGED <<queue, active, nextId, task, files, cancelCall, nCancels,
                   submitted, otherVars, listCall, qlock, submitPos>>

\* download.rs:122: dl.lock() of get_downloads for its next slot; the guard is
\* a temporary and is dropped when the clone is made.
list_locked_slot(c) ==
    /\ c.i \in Slots
    /\ slock[c.i] = <<>>
    /\ listCall' = << [c EXCEPT !.i = @ + 1] >>
    /\ UNCHANGED <<queue, active, nextId, task, files, cancelCall, nCancels,
                   submitted, otherVars, getCall, lockVars>>

locked_list_first ==
    /\ listCall = <<>>
    /\ list_locked_slot([i |-> 1, active_downloads |-> <<>>, queue |-> <<>>,
                          fin |-> FALSE, tracked |-> {}])

locked_list_next ==
    /\ listCall /= <<>>
    /\ list_locked_slot(listCall[1])

\* main.rs:143: the lock the serialization of Downloads.queue takes; the call
\* is over.
locked_list_serialize ==
    /\ listCall /= <<>>
    /\ listCall[1].i \notin Slots
    /\ qlock = <<>>
    /\ listCall' = <<>>
    /\ UNCHANGED <<queue, active, nextId, task, files, cancelCall, nCancels,
                   submitted, otherVars, getCall, lockVars>>

\* How many downloads are triggered in a behaviour of SpecLocks.
LockDownloads == 3

\* The responses have no Content-Length and their bodies come in one chunk:
\* what is locked does not depend on the lengths.
NextLocks ==
    \/ nextId < LockDownloads /\ submit_lock_queue
    \/ submit_skip
    \/ \E u \in InputUrls, p \in InputPaths : submit_place(u, p, <<>>)
    \/ \E u \in InputUrls, p \in InputPaths : submit_push(u, p, <<>>)
    \/ \E id \in Ids : locked_start(id)
    \/ \E id \in Ids : locked_response(id) /\ task'[id].clen = <<>>
    \/ \E id \in Ids : download_create(id) /\ UNCHANGED lockVars
    \/ \E id \in Ids :
          download_next(id) /\ task'[id].chunk \in {0, MaxBytes} /\ UNCHANGED lockVars
    \/ \E id \in Ids : locked_update(id)
    \/ \E id \in Ids : remove_file(id) /\ UNCHANGED lockVars
    \/ \E id \in Ids : task_lock_queue(id)
    \/ \E id \in Ids : locked_queue_next(id)
    \/ \E id \in Ids : locked_cancel_first(id)
    \/ locked_cancel_next
    \/ locked_cancel_queue
    \/ \E id \in Ids : locked_get_first(id)
    \/ locked_get_next
    \/ locked_get_queue
    \/ locked_list_first
    \/ locked_list_next
    \/ locked_list_serialize

SpecLocks == Init /\ [][NextLocks]_vars

Owners ==
    { Caller(n) : n \in {"submit", "cancel", "get", "list"} } \cup { TaskOwner(id) : id \in Ids }

\* The lock the next step of a call in progress or of a task takes: 0 is the
\* lock of the queue, s the lock of slot s; the empty set if there is none.
ScanLock(call) ==
    IF call = <<>> THEN {} ELSE IF call[1].i \in Slots THEN {call[1].i} ELSE {0}

NextLock(o) ==
    IF o.who = "submit" THEN (IF submitPos \in Slots THEN {submitPos} ELSE {})
    ELSE IF o.who = "cancel" THEN ScanLock(cancelCall)
    ELSE IF o.who = "get" THEN ScanLock(getCall)
    ELSE IF o.who = "list" THEN ScanLock(listCall)
    ELSE IF task[o.id].pc \in {"start", "send", "update"} THEN {task[o.id].slot}
    ELSE IF task[o.id].pc = "queue_next"
         THEN (IF qlock = <<o>> THEN {task[o.id].slot} ELSE {0})
    ELSE {}

Holder(l) == IF l = 0 THEN qlock ELSE slock[l]

\* o cannot go on before o2 drops a lock.
WaitsOn(o, o2) == \E l \in NextLock(o) : Holder(l) = <<o2>>

\* C12: no call and no task that is about to lock the queue holds the lock of
\* a slot, and in no state is there a set of calls and tasks each of which
\* waits for a lock that another of the set (or itself) holds.
C12_LockOrderNoDeadlock ==
    /\ \A o \in Owners : 0 \in NextLock(o) => HoldsSlot(o) = {}
    /\ \A o \in Owners : qlock = <<o>> =>
          o.who \in {"submit", "task"} /\ HoldsSlot(o) = {}
    /\ LET blocked == { o \in Owners : \E l \in NextLock(o) : Holder(l) /= <<>> }
       IN  ~ \E D \in SUBSET blocked :
                 /\ D /= {}
                 /\ \A o \in D : \E o2 \in D : WaitsOn(o, o2)

\* trigger_download holds the queue lock and is at its second slot, a task
\* that has ended its transfer and a cancel_download call that has looked at
\* all slots wait for the queue lock, and a get_download call is under way.
C12_Witness ==
    /\ qlock = <<Caller("submit")>> /\ submitPos = MAX_PARALLEL_DOWNLOADS
    /\ cancelCall /= <<>> /\ cancelCall[1].i \notin Slots
    /\ \E id \in Ids : task[id].pc = "queue_next"
    /\ getCall /= <<>>
    /\ listCall /= <<>>

\* C11: whatever path the caller sends, the path kept in the record has no
\* parent-directory component, and every file a task creates lies under
\* DOWNLOAD_FOLDER.
C11_DestinationUnderRoot ==
    /\ \A s \in Slots : active[s] /= <<>> =>
          \A i \in 1..Len(active[s][1].path) : active[s][1].path[i] /= ".."
    /\ \A d \in Dests : files[d] /= <<>> => UnderRoot(d)

\* ------------------------------------------------------ the record's fields
\* C21: the size of a download that is known stays what it is as long as the
\* download is in its slot or in the queue; it becomes known only in the step
\* of its task that receives the response, and no download of the queue and
\* no download whose task has not received a response has a size.
C21_Step ==
    \A id \in Ids :
        Tracked(id) /\ Tracked(id)' =>
            /\ RecordOf(id).size /= <<>> => RecordOf(id).size' = RecordOf(id).size
            /\ RecordOf(id).size = <<>> /\ RecordOf(id).size' /= <<>> =>
                   /\ task[id].pc = "send" /\ task'[id].pc = "create"
                   /\ RecordOf(id).size' = task'[id].clen

C21_Inv ==
    /\ \A i \in 1..Len(queue) : queue[i].size = <<>>
    /\ \A id \in ActiveIds :
          task[id].pc \in {"none", "start", "send"} => RecordOf(id).size = <<>>

C21_SizeSetOnce == []C21_Inv /\ [][C21_Step]_vars

\* A download whose size became known has since counted a chunk and been
\* cancelled: its size is still the Content-Length of the response.
C21_Witness ==
    \E id \in ActiveIds :
        /\ RecordOf(id).size = <<MaxBytes>>
        /\ RecordOf(id).current_size = 1
        /\ RecordOf(id).status = "Cancelled"
        /\ task[id].pc = "stream"

\* C22: a download that cancel_download hit in its slot while its task was
\* streaming leaves the slot only when its task has removed the file, or when
\* there is no file at its path: not while the file the task wrote is there.
C22_Step ==
    \A id \in Ids :
        (task[id].cs /\ Tracked(id) /\ ~Tracked(id)') =>
            \/ task[id].rm = "ok"
            \/ files'[task[id].path] = <<>>

C22_CancelledLeavesAfterRemoval == [][C22_Step]_vars

\* C23: a download that cancel_download has set Cancelled in its slot before
\* its task ran its first critical section is still Cancelled after every
\* step that leaves it in the slot, the first step of its task included.
C23_Step ==
    \A id \in Ids :
        (/\ SlotsOf(id) /= {} /\ task[id].pc = "start"
         /\ RecordOf(id).status = "Cancelled"
         /\ SlotsOf(id)' /= {})
            => RecordOf(id).status' = "Cancelled"

C23_EarlyCancelIsKept == [][C23_Step]_vars

\* ------------------------------------------------------ a task and its slot
\* C24, each state: the slot a task was given holds the download the task was
\* spawned for as long as the task has not ended, so that download() never
\* finds its Mutex empty.
C24_Inv ==
    \A id \in Ids :
        /\ Live(task[id]) =>
              /\ task[id].slot \in Slots
              /\ active[task[id].slot] /= <<>>
              /\ active[task[id].slot][1].uuid = id
        /\ task[id].released => task[id].pc = "done"

\* C24, each step: queue_next runs for a task only as its last step (a task
\* that has ended takes no step more, so it runs at most once), and only the
\* task of a slot takes a download out of it or puts another one in its place.
C24_Step ==
    /\ \A id \in Ids :
          /\ task[id].pc = "done" => task'[id] = task[id]
          /\ (task'[id].released /\ ~task[id].released) => task[id].pc = "queue_next"
    /\ \A s \in Slots :
          (active[s] /= <<>> /\ (active'[s] = <<>> \/ active'[s][1].uuid /= active[s][1].uuid)) =>
              LET id == active[s][1].uuid
              IN  task[id].pc = "queue_next" /\ task[id].slot = s /\ task'[id].released

C24_TaskOwnsItsSlot == []C24_Inv /\ [][C24_Step]_vars

\* Tasks have run queue_next, and a download that waited behind another in
\* the queue is in the slot it was promoted into, its task not yet begun.
C24_Witness ==
    \E id, nx \in Ids :
        /\ task[id].released
        /\ task[nx].via = "queue_next" /\ task[nx].pc = "start"
        /\ nx > MAX_PARALLEL_DOWNLOADS + 1
        /\ SlotsOf(nx) = {task[nx].slot}

\* C25: while the task of a download waits for the response to its GET, the
\* download in the slot is not Running yet: it is Created, or Cancelled if a
\* cancel_download call came in between.
C25_NotRunningBeforeResponse ==
    \A id \in Ids :
        task[id].pc = "send" => RecordOf(id).status \in {"Created", "Cancelled"}

\* C25 amended, each step: the first critical section of download() leaves
\* the download Running, and no other step makes a download Running.
C25_Step ==
    \A id \in Ids :
        /\ (task[id].pc = "start" /\ task'[id].pc = "send") =>
               RecordOf(id).status' = "Running"
        /\ (/\ Tracked(id) /\ Tracked(id)'
            /\ RecordOf(id).status /= "Running"
            /\ RecordOf(id).status' = "Running")
               => task[id].pc = "start" /\ task'[id].pc = "send"

\* C25 amended, each state: a download is Created as long as it is in the
\* queue, and Created or Cancelled in its slot until its task has begun;
\* from then on it is Running or Cancelled.
C25_Inv ==
    /\ \A i \in 1..Len(queue) : queue[i].status = "Created"
    /\ \A id \in Ids :
          /\ task[id].pc = "start" => RecordOf(id).status \in {"Created", "Cancelled"}
          /\ Live(task[id]) /\ task[id].pc /= "start" =>
                 RecordOf(id).status \in {"Running", "Cancelled"}

C25_RunningFromStart == []C25_Inv /\ [][C25_Step]_vars

\* A task waits for the response, its download Running and without a size,
\* while another download, promoted from the queue, is still Created.
C25_Witness ==
    \E id, other \in Ids :
        /\ task[id].pc = "send"
        /\ RecordOf(id).status = "Running" /\ RecordOf(id).size = <<>>
        /\ task[other].pc = "start" /\ task[other].via = "queue_next"
        /\ RecordOf(other).status = "Created"

\* ------------------------------------------------------- cancel in a slot
\* The download is the same but for its status.
SameButStatus(a, b) ==
    /\ a.uuid = b.uuid /\ a.url = b.url /\ a.path = b.path
    /\ a.current_size = b.current_size /\ a.size = b.size

\* C26: a step of cancel_download that looks at a slot changes at most one
\* slot, and in it only the status of the download with the uuid of the call,
\* to Cancelled; the queue and the files stay as they are and every task stays
\* where it is.  A Cancelled download leaves its slot only in queue_next of
\* its own task.
C26_Step ==
    /\ (/\ cancelCall' /= cancelCall
        /\ cancelCall = <<>> \/ cancelCall[1].i \in Slots) =>
          /\ queue' = queue
          /\ files' = files
          /\ \A id \in Ids : task'[id].pc = task[id].pc /\ task'[id].slot = task[id].slot
          /\ \A s \in Slots :
                active'[s] /= active[s] =>
                    /\ active[s] /= <<>> /\ active'[s] /= <<>>
                    /\ SameButStatus(active[s][1], active'[s][1])
                    /\ active'[s][1].status = "Cancelled"
                    /\ cancelCall' = <<>>
                    /\ \A r \in Slots \ {s} : active'[r] = active[r]
    /\ \A s \in Slots :
          (/\ active[s] /= <<>> /\ active[s][1].status = "Cancelled"
           /\ active'[s] = <<>> \/ active'[s][1].uuid /= active[s][1].uuid)
              => /\ task[active[s][1].uuid].pc = "queue_next"
                 /\ task'[active[s][1].uuid].pc = "done"

C26_CancelOnlySetsStatus == [][C26_Step]_vars

\* The call has returned after it set a streaming download Cancelled: the
\* download is in its slot with the byte it had counted, its task still
\* streams, the other slot is taken and a download waits.
C26_Witness ==
    \E id \in Ids :
        /\ nCancels = 1 /\ cancelCall = <<>>
        /\ task[id].cs /\ task[id].pc = "stream"
        /\ SlotsOf(id) = {task[id].slot}
        /\ RecordOf(id).status = "Cancelled" /\ RecordOf(id).current_size = 1
        /\ \A s \in Slots : active[s] /= <<>>
        /\ queue /= <<>>

\* --------------------------------------------------------------- streaming
\* C27, each state: between two chunks current_size of a download is the
\* number of bytes its task has written to the file; while a chunk is written
\* and not yet counted, current_size is behind by the length of that chunk.
C27_Inv ==
    \A id \in Ids :
        /\ task[id].pc = "stream" =>
              /\ task[id].chunk = 0
              /\ RecordOf(id).current_size = task[id].off
        /\ task[id].pc = "update" =>
              /\ task[id].chunk > 0
              /\ RecordOf(id).current_size + task[id].chunk = task[id].off
              /\ RecordOf(id).current_size < task[id].off

\* C27, each step: the task writes a chunk at the end of what it has written
\* in the step that takes it from the stream, and counts that chunk, and
\* nothing else, in its next step, which writes nothing.
C27_Step ==
    \A id \in Ids :
        /\ (Live(task[id]) /\ Live(task'[id]) /\ task'[id].off /= task[id].off) =>
              /\ task[id].pc = "stream" /\ task'[id].pc = "update"
              /\ task'[id].off = task[id].off + task'[id].chunk
              /\ RecordOf(id).current_size' = RecordOf(id).current_size
        /\ (Tracked(id) /\ Tracked(id)'
            /\ RecordOf(id).current_size' /= RecordOf(id).current_size) =>
              /\ task[id].pc = "update"
              /\ RecordOf(id).current_size' = RecordOf(id).current_size + task[id].chunk
              /\ task'[id].pc = "stream" => task'[id].off = task[id].off
              /\ files' = files

C27_WriteThenCount == []C27_Inv /\ [][C27_Step]_vars

\* The second chunk of a download is written and not yet counted.
C27_Witness ==
    \E id \in Ids :
        /\ task[id].pc = "update"
        /\ task[id].off = 2 /\ task[id].chunk = 1
        /\ RecordOf(id).current_size = 1
        /\ files[task[id].path] = <<2>>

\* ------------------------------------------------ the end of a task's work
\* C28, each state: fs::remove_file is called only by a task whose download()
\* returned Ok(Some(path)), and such a task has called it, with success, when
\* it comes to queue_next.
C28_Inv ==
    \A id \in Ids :
        /\ task[id].pc = "remove" => task[id].result = "cancelled" /\ task[id].rm = "none"
        /\ task[id].result \in {"ok", "err"} =>
               task[id].pc = "queue_next" /\ task[id].rm = "none"
        /\ (task[id].result = "cancelled" /\ task[id].pc = "queue_next") => task[id].rm = "ok"

\* C28, each step: a file goes away only in the fs::remove_file step of a task
\* whose download() returned Ok(Some(path)) with that path; that step is the
\* only one in which the task calls fs::remove_file, it comes right after
\* download() has returned and before queue_next, and the task never comes
\* back to it.
C28_Step ==
    /\ \A d \in Dests :
          (files[d] /= <<>> /\ files'[d] = <<>>) =>
              \E id \in Ids :
                  /\ task[id].pc = "remove" /\ task[id].result = "cancelled"
                  /\ task[id].path = d
                  /\ task'[id].pc = "queue_next" /\ task'[id].rm = "ok"
    /\ \A id \in Ids :
          /\ task'[id].rm /= task[id].rm /\ task'[id].rm /= "none" => task[id].pc = "remove"
          /\ (task[id].pc = "remove" /\ task'[id].pc /= "remove") =>
                 /\ task'[id].rm \in {"ok", "failed"}
                 /\ task'[id].pc = "queue_next" <=> task'[id].rm = "ok"
          /\ (task[id].pc /= "remove" /\ task'[id].pc = "remove") =>
                 task[id].pc = "update" /\ task'[id].result = "cancelled"
          /\ (task[id].result \in {"ok", "err"} /\ task'[id] /= task[id]) =>
                 task'[id].pc = "done" /\ files' = files

C28_RemoveOnlyWhenCancelled == []C28_Inv /\ [][C28_Step]_vars

\* A task whose download() returned Ok(Some(path)) has removed the file and is
\* about to run queue_next, while the task of another download has ended.
C28_Witness ==
    \E id, other \in Ids :
        /\ task[id].result = "cancelled" /\ task[id].rm = "ok"
        /\ task[id].pc = "queue_next"
        /\ files[task[id].path] = <<>>
        /\ task[other].released

\* ------------------------------------------------- locks and the network
\* The task waits for the response to its GET or for the next item of the
\* body stream (download.rs:209, 223).
Awaiting(id) == task[id].pc \in {"send", "stream"}

\* C29: a task that waits for the network holds no lock: no task holds the
\* lock of a slot from one of its steps to the next, a task holds the lock of
\* the queue only inside queue_next, and so a call that has to wait for a
\* lock never waits for a task that waits for the network.
C29_NoLockWhileAwaiting ==
    /\ \A id \in Ids :
          /\ HoldsSlot(TaskOwner(id)) = {}
          /\ qlock = <<TaskOwner(id)>> => task[id].pc = "queue_next"
          /\ Awaiting(id) => \A l \in {0} \cup Slots : Holder(l) /= <<TaskOwner(id)>>
    /\ \A o \in Owners, id \in Ids :
          (o.who /= "task" /\ WaitsOn(o, TaskOwner(id))) => ~Awaiting(id)

\* One task waits for its response and another for its next chunk while
\* trigger_download holds the queue lock and a cancel_download call is at its
\* second slot.
C29_Witness ==
    \E id, other \in Ids :
        /\ task[id].pc = "send" /\ task[other].pc = "stream"
        /\ qlock = <<Caller("submit")>>
        /\ cancelCall /= <<>> /\ cancelCall[1].i = 2

\* ------------------------------------------------------- a GET that fails
\* C30: the step in which send() of a task fails makes and truncates no file,
\* stores no size and takes the task to queue_next; the one step more that
\* the task takes is queue_next, which touches no file and takes out of the
\* slot a download that still has no size.
C30_Step ==
    \A id \in Ids :
        /\ (task[id].pc = "send" /\ task'[id].result = "err") =>
              /\ files' = files
              /\ active' = active /\ queue' = queue
              /\ RecordOf(id).size' = <<>>
              /\ task'[id].pc = "queue_next"
              /\ task'[id].fh = "none" /\ task'[id].off = 0 /\ task'[id].clen = <<>>
        /\ (task[id].result = "err" /\ task[id].clen = <<>> /\ task'[id] /= task[id]) =>
              /\ task[id].pc = "queue_next"
              /\ RecordOf(id).size = <<>>
              /\ files' = files
              /\ task'[id].pc = "done" /\ task'[id].released
              /\ ~Tracked(id)'

C30_FailedGetMakesNoFile == [][C30_Step]_vars

\* send() of a task has failed: there is no file at its path, its download
\* has no size, and the task is about to run queue_next.
C30_Witness ==
    \E id \in Ids :
        /\ task[id].result = "err" /\ task[id].pc = "queue_next"
        /\ task[id].clen = <<>> /\ task[id].off = 0
        /\ files[task[id].path] = <<>>
        /\ RecordOf(id).size = <<>> /\ RecordOf(id).status = "Running"

\* ------------------------------------------------------ cancel, twice
\* download.rs:127-141: what a cancel_download(uuid) call that runs with no
\* other step in between makes of the slots and the queue: the first slot
\* with the uuid is set Cancelled, or, if there is none, the queue is
\* searched.
CancelAlone(act, q, uuid) ==
    LET hit == { s \in Slots : act[s] /= <<>> /\ act[s][1].uuid = uuid }
    IN  IF hit /= {}
        THEN LET s == CHOOSE s \in hit : \A r \in hit : s <= r
             IN  << [act EXCEPT ![s] = <<SetCancelled(act[s][1])>>], q >>
        ELSE << act, Retain(q, uuid) >>

\* C31: when a cancel_download(uuid) call returns, a second call for the same
\* uuid that runs right then would leave every slot, every download and the
\* queue as they are.
C31_Step ==
    /\ (cancelCall /= <<>> /\ cancelCall' = <<>>) =>
          CancelAlone(active', queue', cancelCall[1].uuid) = <<active', queue'>>
    /\ (cancelCall = <<>> /\ cancelCall' = <<>> /\ nCancels' /= nCancels) =>
          CancelAlone(active', queue', active[1][1].uuid) = <<active', queue'>>

C31_CancelTwiceIsCancelOnce == [][C31_Step]_vars

\* ------------------------------------------------------ the queue's order
\* C32: no download waits in the queue while a slot is empty.
C32_WorkConserving ==
    queue /= <<>> => \A s \in Slots : active[s] /= <<>>

\* A task has ended and handed its slot to the head of the queue; the slots
\* are all taken again and the next download still waits.
C32_Witness ==
    /\ \E id \in Ids : task[id].released
    /\ \E id \in ActiveIds : task[id].via = "queue_next"
    /\ \A s \in Slots : active[s] /= <<>>
    /\ Len(queue) = 1

\* C33: uuids are handed out in the order of the trigger_download calls.  No
\* download has been put into a slot (has had a task spawned for it) while a
\* download of an earlier call still waits in the queue; and the downloads
\* of the queue stand in the order of their calls.
C33_PlacedInCallOrder ==
    /\ \A x \in QueueIds : \A y \in Ids : y > x => task[y].pc = "none"
    /\ \A i, j \in 1..Len(queue) : i < j => queue[i].uuid < queue[j].uuid

\* The third download was promoted and streams while the fourth, triggered
\* after it, still waits.
C33_Witness ==
    /\ task[3].via = "queue_next" /\ task[3].pc = "stream"
    /\ Len(queue) = 1 /\ queue[1].uuid = 4
    /\ task[4].pc = "none"

\* ------------------------------------------------------ whose file it is
\* C34: fs::remove_file of a cancelled download never takes away the file
\* that the task of another download has open and writes to.
C34_Step ==
    \A id \in Ids :
        (task[id].fh = "linked" /\ Tracked(id)) => task'[id].fh /= "unlinked"

C34_RemovesOnlyOwnFile == [][C34_Step]_vars

\* ------------------------------------------------- the downloads that wait
\* No task has worked on the download and no call has cancelled it.
Untouched(dl) == dl.status = "Created" /\ dl.current_size = 0 /\ dl.size = <<>>

\* C35, each state: every download of the queue is Created, has counted no
\* byte and has no size.
C35_Inv == \A i \in 1..Len(queue) : Untouched(queue[i])

\* C35, each step: a download that comes from the queue into a slot is there
\* as it was in the queue, Created, with no byte counted and no size.
C35_Step ==
    \A s \in Slots :
        (/\ active'[s] /= <<>>
         /\ active[s] = <<>> \/ active[s][1].uuid /= active'[s][1].uuid
         /\ active'[s][1].uuid \in QueueIds)
            => /\ active'[s][1] = RecordOf(active'[s][1].uuid)
               /\ Untouched(active'[s][1])

C35_QueuedIsUntouched == []C35_Inv /\ [][C35_Step]_vars

\* A cancel_download call has returned and a task has ended; a download has
\* just come from the queue into a slot, and another one waits behind it.
C35_Witness ==
    \E id \in ActiveIds :
        /\ task[id].via = "queue_next" /\ task[id].pc = "start"
        /\ Untouched(RecordOf(id))
        /\ nCancels = 1 /\ cancelCall = <<>>
        /\ \E other \in Ids : task[other].released
        /\ queue /= <<>> /\ Untouched(queue[1])

\* ================================================================ previews
\* src/src/dvbc_preview.rs.  waiting[1] is the front of the VecDeque.
\* dvbc_preview.rs:134-137: the names of the channels in running.
RunningChannels(run) ==
    { run[i][1].name : i \in { j \in PreviewSlots : run[j] /= <<>> } }

\* dvbc_preview.rs:140-155: a slot becomes None when try_wait says that its
\* child has ended, or returns an Err (the slots of errs).
Reap(run, errs) ==
    [i \in PreviewSlots |->
        IF run[i] /= <<>> /\ (run[i][1].exited \/ i \in errs) THEN <<>> ELSE run[i]]

\* dvbc_preview.rs:158
EmptySlots(run) == Cardinality({ i \in PreviewSlots : run[i] = <<>> })

\* dvbc_preview.rs:167: waiting.retain(|channel| !running_channels.any(..))
RetainNotRunning(w, names) == SelectSeq(w, LAMBDA c : c \notin names)

\* VecDeque::split_off(at), for at <= len: <<what stays, what is returned>>.
SplitOff(w, at) == << SubSeq(w, 1, at), SubSeq(w, at + 1, Len(w)) >>

\* dvbc_preview.rs:173-184: from slot i on, each slot that is None takes the
\* back of to_run, unless create_preview fails for it (the slots of fails);
\* <<running, to_run>> after the loop.
RECURSIVE StartPreviews(_, _, _, _)
StartPreviews(run, to_run, i, fails) ==
    IF i > PREVIEW_SLOTS \/ to_run = <<>> THEN <<run, to_run>>
    ELSE IF run[i] /= <<>> THEN StartPreviews(run, to_run, i + 1, fails)
    ELSE LET channel == to_run[Len(to_run)]
             rest    == SubSeq(to_run, 1, Len(to_run) - 1)
         IN  StartPreviews(IF i \in fails THEN run
                           ELSE [run EXCEPT ![i] = <<[name |-> channel, exited |-> FALSE]>>],
                           rest, i + 1, fails)

NoPreviews == [i \in PreviewSlots |-> <<>>]

\* dvbc_preview.rs:169: waiting_len - empty_slots in usize; -1 stands for the
\* outcomes of a difference below zero: the overflow panic of a debug build,
\* or a wrapped value beyond the length, on which split_off panics.
SplitAt(waiting_len, empty_slots) ==
    IF waiting_len >= empty_slots THEN waiting_len - empty_slots ELSE -1

\* dvbc_preview.rs:132-191: one call of schedule() by the scheduler task, and
\* what start() does with what it returns (dvbc_preview.rs:125-129).
schedule ==
    /\ scheduler = "alive"
    /\ \E errs \in SUBSET PreviewSlots, fails \in SUBSET PreviewSlots :
          LET names       == RunningChannels(running)
              reaped      == Reap(running, errs)
              empty_slots == EmptySlots(reaped)
              kept        == RetainNotRunning(waiting, names)
              at          == SplitAt(Len(kept), empty_slots)
          IN  IF empty_slots = 0
              THEN /\ IF waiting /= <<>>
                      THEN scheduler' = "alive" /\ running' = reaped
                      ELSE scheduler' = "finished" /\ running' = NoPreviews
                   /\ UNCHANGED <<waiting, panicked>>
              ELSE IF at < 0
              THEN /\ waiting' = kept
                   /\ scheduler' = "panicked" /\ panicked' = "split_off"
                   /\ running' = NoPreviews
              ELSE LET parts   == SplitOff(kept, at)
                       started == StartPreviews(reaped, parts[2], 1, fails)
                   IN  /\ waiting' = parts[1]
                       /\ IF started[2] /= <<>>
                          THEN /\ scheduler' = "panicked" /\ panicked' = "never_happen"
                               /\ running' = NoPreviews
                          ELSE /\ scheduler' = "alive" /\ running' = started[1]
                               /\ UNCHANGED panicked
    /\ UNCHANGED <<downloadVars, processVars>>

\* The ffmpeg child of a slot ends.
child_exit(i) ==
    /\ running[i] /= <<>>
    /\ ~running[i][1].exited
    /\ running' = [running EXCEPT ![i] = <<[@[1] EXCEPT !.exited = TRUE]>>]
    /\ UNCHANGED <<waiting, scheduler, panicked, downloadVars, processVars>>

InWaiting(name) == \E k \in 1..Len(waiting) : waiting[k] = name

\* dvbc_preview.rs:92-110: request_preview and how_is_the_scheduler_doing.
\* The panic inside the block of dvbc_preview.rs:165-170 poisons the lock of
\* waiting, and waiting.lock().unwrap() then panics in every later call.
request_preview(name, file_exists) ==
    /\ panicked /= "split_off"
    /\ waiting' = IF /\ Len(waiting) <= 5 \/ (~file_exists /\ Len(waiting) <= 10)
                     /\ ~InWaiting(name)
                  THEN <<name>> \o waiting
                  ELSE waiting
    /\ IF scheduler /= "alive"
       THEN scheduler' = "alive" /\ running' = NoPreviews
       ELSE UNCHANGED <<scheduler, running>>
    /\ UNCHANGED <<panicked, downloadVars, processVars>>

NextPreview ==
    \/ \E name \in ChannelNames, file_exists \in BOOLEAN : request_preview(name, file_exists)
    \/ schedule
    \/ \E i \in PreviewSlots : child_exit(i)

SpecPreview == Init /\ [][NextPreview]_vars

\* C36: schedule() never panics: what is taken from waiting is never more
\* than waiting holds (waiting_len - empty_slots is not below zero) nor more
\* than there are empty slots, so the lock of waiting is never poisoned.
C36_ScheduleNeverPanics == panicked = "none"

\* ========================================================= ProcessHandler
\* src/src/process.rs.  Each call holds the lock of open_process while it
\* works on it.
\* How often handle_callbacks is counted for one process.
MaxCallbacks == 3

\* process.rs:160-165: t.on_stop and the on_stop callback are called.
handle_callbacks(stops, pid) == [stops EXCEPT ![pid] = @ + 1]

\* process.rs:167-175, as <<open_process, stopCalls>>: a process that has
\* ended is reported to the callbacks and forgotten.
check_process(open, stops) ==
    IF open /= <<>> /\ open[1].pid \in exited
    THEN << <<>>, handle_callbacks(stops, open[1].pid) >>
    ELSE << open, stops >>

\* process.rs:151-158, as [ok, stops, ended]: the callbacks, then kill()?
\* and wait()?; ended: the processes that have ended after it.
stop_impl(open, stops, kill_ok, wait_ok) ==
    IF open = <<>> THEN [ok |-> TRUE, stops |-> stops, ended |-> exited]
    ELSE [ ok    |-> kill_ok /\ wait_ok,
           stops |-> handle_callbacks(stops, open[1].pid),
           ended |-> IF kill_ok THEN exited \cup {open[1].pid} ELSE exited ]

\* The callbacks are within the count of the model.
CanCall(open) == IF open = <<>> THEN TRUE ELSE stopCalls[open[1].pid] < MaxCallbacks

\* process.rs:117-124: running() is check_process and a look at open_process.
running_call ==
    /\ CanCall(open_process)
    /\ open_process' = check_process(open_process, stopCalls)[1]
    /\ stopCalls' = check_process(open_process, stopCalls)[2]
    /\ UNCHANGED <<nextPid, exited, downloadVars, previewVars>>

\* process.rs:126-142: start(args); spawn_ok: start_process returns a Child.
start(args, kill_ok, wait_ok, spawn_ok) ==
    /\ CanCall(open_process)
    /\ LET checked == check_process(open_process, stopCalls)
           open    == checked[1]
       IN  IF open /= <<>> /\ open[1].args = args
           THEN /\ open_process' = open
                /\ stopCalls' = checked[2]
                /\ UNCHANGED <<nextPid, exited>>
           ELSE LET stopped == stop_impl(open, checked[2], kill_ok, wait_ok)
                IN  /\ stopCalls' = stopped.stops
                    /\ exited' = stopped.ended
                    /\ IF stopped.ok /\ spawn_ok
                       THEN /\ nextPid < MaxProcesses
                            /\ nextPid' = nextPid + 1
                            /\ open_process' = << [pid |-> nextPid + 1, args |-> args] >>
                       ELSE /\ open_process' = open
                            /\ UNCHANGED nextPid
    /\ UNCHANGED <<downloadVars, previewVars>>

\* process.rs:144-149: stop()
stop(kill_ok, wait_ok) ==
    /\ CanCall(open_process)
    /\ LET stopped == stop_impl(open_process, stopCalls, kill_ok, wait_ok)
       IN  /\ stopCalls' = stopped.stops
           /\ exited' = stopped.ended
           /\ open_process' = IF stopped.ok THEN <<>> ELSE open_process
    /\ UNCHANGED <<nextPid, downloadVars, previewVars>>

\* The process ends by itself.
process_exit ==
    /\ open_process /= <<>>
    /\ open_process[1].pid \notin exited
    /\ exited' = exited \cup {open_process[1].pid}
    /\ UNCHANGED <<open_process, nextPid, stopCalls, downloadVars, previewVars>>

NextProcess ==
    \/ running_call
    \/ \E args \in ProcessArgs, kill_ok, wait_ok, spawn_ok \in BOOLEAN :
          start(args, kill_ok, wait_ok, spawn_ok)
    \/ \E kill_ok, wait_ok \in BOOLEAN : stop(kill_ok, wait_ok)
    \/ process_exit

SpecProcess == Init /\ [][NextProcess]_vars

\* C37: the callbacks are called at most once for a process, and they have
\* been called once for every process the handler has started and no longer
\* holds.
C37_CallbacksOncePerProcess ==
    \A pid \in 1..nextPid :
        /\ stopCalls[pid] <= 1
        /\ (IF open_process = <<>> THEN TRUE ELSE open_process[1].pid /= pid)
              => stopCalls[pid] = 1
====
